---- MODULE Spec2Model ----
(***************************************************************************)
(* A model of SQL-Practice's statement-execution binding (class            *)
(* SQLDatabase, src/unnamed/part_000) and of its snapshot store (class     *)
(* DatabaseStorage, src/lib/storage.ts).                                    *)
(*                                                                         *)
(* Texts (statements, error messages, cells) are sequences of one-character*)
(* or one-word strings, so that trimming, concatenation and comparison are *)
(* computed and not assumed.                                               *)
(***************************************************************************)
EXTENDS Integers, Sequences, FiniteSets, TLC

\* ------------------------------------------------------------------ bounds
MaxRows == 2      \* rows the single table of an engine instance can hold
MaxEngines == 2   \* engine instances constructed in one behaviour
MaxBatch == 2     \* statements in one executeMultipleQueries call
MaxStmts == 1     \* prepared statements an engine instance may keep unreleased
MaxInFlight == 2  \* requests the backing store has not yet answered

\* ------------------------------------------------------------------- texts
\* The characters of a statement: white space, the statement separator, and
\* one letter per statement class the engine tells apart:
\*   s  a row-producing statement over the table (SELECT)
\*   i  a non-row-returning statement (INSERT of the next key; the table
\*      holds at most MaxRows keys, a further INSERT violates its constraint)
\*   x  a statement the engine rejects (syntax error, unknown table)
\*   m  the catalogue query of getTableInfo, p the pragma of getTableSchema
Space == " "
Semi == ";"

IsSpace(c) == c = Space

\* F(v), with v evaluated once.
Let(v, F(_)) == CHOOSE y \in {F(x) : x \in {v}} : TRUE

Least(S) == CHOOSE i \in S : \A j \in S : i <= j
Greatest(S) == CHOOSE i \in S : \A j \in S : i >= j

\* String.prototype.trim: drops the white space at both ends, keeps the rest.
trim(t) ==
    LET keep == {i \in 1..Len(t) : ~IsSpace(t[i])} IN
    IF keep = {} THEN <<>> ELSE SubSeq(t, Least(keep), Greatest(keep))

\* The statements callers pass: empty, blank, padded on either side, one of
\* each class, and two-statement texts.
Texts ==
    { <<>>, <<" ">>, <<"s">>, <<" ", "s">>, <<"i">>, <<"f">>,
      <<" ", "x", " ">>, <<";", "x">> }

\* The messages of the engine's errors: one for a statement that does not
\* compile or fails while stepped, another for a failing direct execution.
PrepareError == <<"prepare or step failed">>
RunError == <<"run failed">>

\* A number as a cell's text.
Digits == <<"0", "1", "2", "3", "4", "5">>
NumText(n) == <<Digits[n + 1]>>

\* ------------------------------------------------------------------ engine
\* The embedded engine (sql.js) as the binding uses it.  An instance holds one
\* table of `rows` rows with keys 1..rows, the row count of its last
\* modification, and the prepared statements not yet released.
NewEngine(n) ==
    [live |-> TRUE, rows |-> n, modified |-> 0, stmts |-> 0, closes |-> 0]

\* The first statement of a text (what prepare compiles) and what follows it.
Separators(t) == {i \in 1..Len(t) : t[i] = Semi}

FirstStmt(t) ==
    IF Separators(t) = {} THEN t ELSE SubSeq(t, 1, Least(Separators(t)) - 1)

RestStmts(t) ==
    IF Separators(t) = {} THEN <<>>
    ELSE SubSeq(t, Least(Separators(t)) + 1, Len(t))

\* The class of one statement: its first character that is not white space.
StmtClass(t) == Let(trim(t), LAMBDA s : IF s = <<>> THEN "blank" ELSE Head(s))

\* stmt.getColumnNames()
ColumnNames(c) ==
    CASE c = "s" -> <<"id">>
      [] c = "m" -> <<"name">>
      [] c = "p" -> <<"cid", "name", "type", "notnull", "dflt_value", "pk">>
      [] OTHER -> <<>>

\* The rows stmt.step()/stmt.get() produce until step returns false.
StmtRows(e, c) ==
    CASE c = "s" -> [k \in 1..e.rows |-> << NumText(k) >>]
      [] c = "m" -> << << <<"t">> >> >>
      [] c = "p" ->
           << << NumText(0), <<"id">>, <<"INTEGER">>, NumText(0), <<>>, NumText(1) >> >>
      [] OTHER -> <<>>

\* One statement run to completion: [ok, engine].  An INSERT into a full
\* table fails and changes nothing.  An INSERT OR FAIL of two rows of which
\* the second violates a constraint ("f") fails and keeps the first row: the
\* FAIL resolution does not back out the changes the statement made before
\* the violation.
RunOne(e, c) ==
    CASE c = "x" -> [ok |-> FALSE, engine |-> e]
      [] c = "f" ->
           IF e.rows < MaxRows
           THEN [ok |-> FALSE,
                 engine |-> [e EXCEPT !.rows = e.rows + 1, !.modified = 1]]
           ELSE [ok |-> FALSE, engine |-> e]
      [] c = "i" ->
           IF e.rows < MaxRows
           THEN [ok |-> TRUE,
                 engine |-> [e EXCEPT !.rows = e.rows + 1, !.modified = 1]]
           ELSE [ok |-> FALSE, engine |-> e]
      [] OTHER -> [ok |-> TRUE, engine |-> e]

\* db.prepare(query): compiles the first statement of the text.  A blank
\* first statement makes sql.js throw the string "Nothing to prepare", which
\* is no Error object; a rejected one makes it throw an Error carrying m.
EnginePrepare(e, q, m) ==
    Let(StmtClass(FirstStmt(q)), LAMBDA c :
        CASE c = "blank" -> [kind |-> "nonerror", msg |-> <<"Nothing to prepare">>,
                             engine |-> e, class |-> c]
          [] c = "x" -> [kind |-> "error", msg |-> m, engine |-> e, class |-> c]
          [] OTHER -> [kind |-> "ok", msg |-> <<>>,
                       engine |-> [e EXCEPT !.stmts = e.stmts + 1], class |-> c])

\* The loop `while (stmt.step()) result.values.push(stmt.get())`.
EngineStepAll(e, c, m) ==
    Let(RunOne(e, c), LAMBDA r :
        IF r.ok
        THEN [kind |-> "ok", msg |-> <<>>, engine |-> r.engine, values |-> StmtRows(e, c)]
        ELSE [kind |-> "error", msg |-> m, engine |-> r.engine, values |-> <<>>])

\* stmt.free()
EngineFree(e) == [e EXCEPT !.stmts = e.stmts - 1]

\* db.run(query): executes every statement of the text in order and stops
\* at the first that fails, which throws an Error carrying m.
RECURSIVE EngineRun(_, _, _)
EngineRun(e, q, m) ==
    IF q = <<>> THEN [kind |-> "ok", msg |-> <<>>, engine |-> e]
    ELSE Let(RunOne(e, StmtClass(FirstStmt(q))), LAMBDA r :
             IF r.ok THEN EngineRun(r.engine, RestStmts(q), m)
             ELSE [kind |-> "error", msg |-> m, engine |-> r.engine])

\* db.getRowsModified()
getRowsModified(e) == e.modified

\* db.export(): the snapshot of the instance, here the table's row count.
EngineExport(e) == e.rows

\* db.close(): releases the instance, its statements included.
EngineClose(e) ==
    [live |-> FALSE, rows |-> 0, modified |-> 0, stmts |-> 0, closes |-> e.closes + 1]

\* ----------------------------------------------------------------- binding
VARIABLES
    SQL,        \* the module-level `SQL`: whether the engine library is loaded
    db,         \* this.db: 0 for null, else the index of the instance in engines
    engines,    \* every engine instance constructed so far
    opening,    \* createDatabase calls awaiting SQLDatabase.initialize()
    pc,         \* the caller: "idle", "batch" while executeMultipleQueries is
                \* awaiting, "done" when an operation has handed back its outcome
    queries,    \* the array given to the executeMultipleQueries in flight
    idx,        \* the position in queries of the statement it awaits
    awaited,    \* the outcome of the executeQuery it awaits
    results,    \* its `results` so far
    ret,        \* what the last completed operation returned or threw
    calls,      \* the executeQuery calls of the last operation (history)
    began,      \* the lifecycle state when the batch in flight was called (history)
    life        \* the lifecycle state of the handle (history)

vars ==
    <<SQL, db, engines, opening, pc, queries, idx, awaited, results, ret, calls,
      began, life>>

\* The optional `data` of createDatabase: absent, a snapshot, or bytes that
\* are no snapshot.
NoData == [given |-> FALSE, valid |-> TRUE, rows |-> 0]
Snapshot(n) == [given |-> TRUE, valid |-> TRUE, rows |-> n]
CorruptData == [given |-> TRUE, valid |-> FALSE, rows |-> 0]
DataArgs == { NoData, CorruptData, Snapshot(MaxRows - 1) }

NotInitialized == <<"Database not initialized">>
UnknownError == <<"Unknown error">>
SuccessCell == <<"Query executed successfully">>

\* `error instanceof Error ? error.message : 'Unknown error'`
MessageOf(err) == IF err.kind = "error" THEN err.msg ELSE UnknownError

NoAttempt == [kind |-> "none", msg |-> <<>>]

\* QueryResult; the optional rowsAffected is a set with at most one element.
QueryResult(cols, vals, affected) ==
    [columns |-> cols, values |-> vals, rowsAffected |-> affected]

\* Mutant of SqlErrorMessage: the message is taken from runError.
SqlErrorMessageOfRun(first, second) == <<"SQL Error: ">> \o MessageOf(second)

\* The message of the Error executeQuery throws when both attempts failed
\* (line 71): it is built from the first attempt's error, not from runError.
SqlErrorMessage(first, second) == <<"SQL Error: ">> \o MessageOf(first)

\* The result of the fallback path, lines 65-69.
FallbackResult(e) ==
    QueryResult(<<"Result">>, << <<SuccessCell>> >>, {getRowsModified(e)})

\* The result of the row-producing path, lines 49-60.
RowResult(c, vals) == QueryResult(ColumnNames(c), vals, {})

\* The row-producing attempt of lines 48-60 on instance e: what it threw, if
\* anything, the instance afterwards, and the result it returns; whether the
\* statement was stepped, and the rows the table had before (history).
FirstAttempt(e, q, m1) ==
    Let(EnginePrepare(e, q, m1), LAMBDA p :
        IF p.kind # "ok"
        THEN [kind |-> p.kind, msg |-> p.msg, engine |-> p.engine, value |-> <<>>,
              stepped |-> FALSE, rows0 |-> e.rows]
        ELSE Let(EngineStepAll(p.engine, p.class, m1), LAMBDA st :
                 IF st.kind # "ok"
                 THEN [kind |-> st.kind, msg |-> st.msg, engine |-> st.engine,
                       value |-> <<>>, stepped |-> TRUE, rows0 |-> e.rows]
                 ELSE [kind |-> "ok", msg |-> <<>>, engine |-> EngineFree(st.engine),
                       value |-> << RowResult(p.class, st.values) >>,
                       stepped |-> TRUE, rows0 |-> e.rows]))

\* The outcome of executeQuery once the first attempt a has failed: the
\* fallback of lines 63-72, where r is what db.run did.
Fallback(q, a, r) ==
    [submitted |-> TRUE, q |-> q, engine |-> r.engine,
     thrown |-> r.kind # "ok",
     msg |-> IF r.kind = "ok" THEN <<>>
             ELSE SqlErrorMessage([kind |-> a.kind, msg |-> a.msg],
                                  [kind |-> r.kind, msg |-> r.msg]),
     value |-> IF r.kind = "ok" THEN << FallbackResult(r.engine) >> ELSE <<>>,
     first |-> [kind |-> a.kind, msg |-> a.msg],
     second |-> [kind |-> r.kind, msg |-> r.msg],
     stepped |-> a.stepped, rows0 |-> a.rows0]

\* executeQuery on instance e, where m1 and m2 are the messages the engine
\* gives if the first or the second attempt fails.  Returns the instance
\* afterwards, the outcome (thrown, msg, value) and what each attempt did.
executeQueryOn(e, q, m1, m2) ==
    Let(FirstAttempt(e, q, m1), LAMBDA a :
        IF a.kind = "ok"
        THEN [submitted |-> TRUE, q |-> q, engine |-> a.engine,
              thrown |-> FALSE, msg |-> <<>>, value |-> a.value,
              first |-> [kind |-> a.kind, msg |-> a.msg], second |-> NoAttempt,
              stepped |-> a.stepped, rows0 |-> a.rows0]
        ELSE Let(EngineRun(a.engine, q, m2), LAMBDA r : Fallback(q, a, r)))

\* executeQuery on the handle: the guard of lines 43-45, then the above.
\* `engine` is the instance afterwards (meaningful when submitted).
executeQuery(q, m1, m2) ==
    IF db = 0
    THEN [submitted |-> FALSE, q |-> q, engine |-> NewEngine(0),
          thrown |-> TRUE, msg |-> NotInitialized, value |-> <<>>,
          first |-> NoAttempt, second |-> NoAttempt,
          stepped |-> FALSE, rows0 |-> 0]
    ELSE executeQueryOn(engines[db], q, m1, m2)

\* engines after an executeQuery call with outcome x.
EnginesAfter(x) ==
    IF x.submitted THEN [engines EXCEPT ![db] = x.engine] ELSE engines

\* What an operation hands back to its caller; `from` is the lifecycle state
\* the operation found.
Returned(op, val, bytes) ==
    [op |-> op, thrown |-> FALSE, msg |-> <<>>, value |-> val, bytes |-> bytes,
     from |-> life]

Thrown(op, msg) ==
    [op |-> op, thrown |-> TRUE, msg |-> msg, value |-> <<>>, bytes |-> {},
     from |-> life]

OutcomeOf(op, x) ==
    IF x.thrown THEN Thrown(op, x.msg) ELSE Returned(op, x.value, {})

NoReturn ==
    [op |-> "none", thrown |-> FALSE, msg |-> <<>>, value |-> <<>>, bytes |-> {},
     from |-> "none"]

SQLDatabaseInit ==
    /\ SQL = FALSE
    /\ db = 0
    /\ engines = <<>>
    /\ opening = <<>>
    /\ pc = "idle"
    /\ queries = <<>>
    /\ idx = 0
    /\ awaited = <<>>
    /\ results = <<>>
    /\ ret = NoReturn
    /\ calls = <<>>
    /\ began = "none"
    /\ life = "Unopened"

\* An operation hands its outcome r to the caller.  One that completes
\* between two statements of a batch leaves the batch in flight.
Complete(r) ==
    /\ pc \in {"idle", "batch"}
    /\ ret' = r
    /\ pc' = IF pc = "batch" THEN "batch" ELSE "done"

\* The caller has read the outcome and is ready for its next call.
Settle ==
    /\ pc = "done"
    /\ pc' = "idle"
    /\ ret' = NoReturn
    /\ queries' = <<>> /\ idx' = 0 /\ awaited' = <<>> /\ results' = <<>> /\ calls' = <<>>
    /\ began' = "none"
    /\ UNCHANGED <<SQL, db, engines, opening, life>>

\* An executeQuery call can be made while the instance has room for one more
\* unreleased statement (the bound of the model on that counter).
CanExecute == IF db = 0 THEN TRUE ELSE engines[db].stmts < MaxStmts

\* createDatabase, up to its `await SQLDatabase.initialize()`.  The caller
\* has one createDatabase in flight at a time.
createDatabaseCall(data) ==
    /\ pc = "idle"
    /\ Len(engines) < MaxEngines
    /\ opening = <<>>
    /\ opening' = Append(opening, data)
    /\ UNCHANGED <<SQL, db, engines, pc, queries, idx, awaited, results, ret, calls,
                   began, life>>

\* An instance this.db no longer references stays as it is, live or closed;
\* nothing reads its content again, which the model stops tracking.
Unreferenced(e) == [e EXCEPT !.rows = 0, !.modified = 0, !.stmts = 0]

\* opening without its k-th call.
Resumed(k) == SubSeq(opening, 1, k - 1) \o SubSeq(opening, k + 1, Len(opening))

\* createDatabase after the await, for the k-th call awaiting: the library
\* is loaded and a new instance replaces this.db, whatever this.db was.
createDatabaseResumeAt(k) ==
    /\ opening[k].valid
    /\ SQL' = TRUE
    /\ engines' =
         Append(IF db = 0 THEN engines
                ELSE [engines EXCEPT ![db] = Unreferenced(engines[db])],
                NewEngine(opening[k].rows))
    /\ db' = Len(engines) + 1
    /\ opening' = Resumed(k)
    /\ Complete(Returned("createDatabase", <<>>, {}))
    /\ life' = "Open"
    /\ UNCHANGED <<queries, idx, awaited, results, calls, began>>

createDatabaseResume ==
    /\ opening # <<>>
    /\ createDatabaseResumeAt(1)

\* createDatabase failing: initSqlJs rejects while the library is not loaded,
\* or the constructor rejects the bytes.  this.db keeps its value.
createDatabaseFailAt(k) ==
    /\ \/ ~SQL /\ SQL' = FALSE
       \/ ~opening[k].valid /\ SQL' = TRUE
    /\ opening' = Resumed(k)
    /\ Complete(Thrown("createDatabase", <<"init failed">>))
    /\ UNCHANGED <<db, engines, queries, idx, awaited, results, calls, began, life>>

createDatabaseFail ==
    /\ opening # <<>>
    /\ createDatabaseFailAt(1)

\* Mutant of ExecuteQueryAs: a failed statement drops the instance.
ExecuteQueryDropsHandle(op, q) ==
    /\ pc = "idle"
    /\ CanExecute
    /\ \E x \in {executeQuery(q, PrepareError, RunError)} :
         /\ engines' = EnginesAfter(x)
         /\ db' = IF x.thrown THEN 0 ELSE db
         /\ Complete(OutcomeOf(op, x))
         /\ calls' = <<x>>
    /\ UNCHANGED <<SQL, opening, queries, idx, awaited, results, began, life>>

\* executeQuery(query), lines 42-74.
ExecuteQueryAs(op, q) ==
    /\ pc = "idle"
    /\ CanExecute
    /\ \E x \in {executeQuery(q, PrepareError, RunError)} :
         /\ engines' = EnginesAfter(x)
         /\ Complete(OutcomeOf(op, x))
         /\ calls' = <<x>>
    /\ UNCHANGED <<SQL, db, opening, queries, idx, awaited, results, began, life>>

executeQueryCall == \E q \in Texts : ExecuteQueryAs("executeQuery", q)

\* getTableInfo and getTableSchema, lines 119-125: executeQuery on a fixed text.
TableInfoQuery == <<"m", ";">>
SchemaQuery(tableName) == <<"p", "(">> \o tableName \o <<")", ";">>
TableNames == { <<"t">> }

getTableInfo == ExecuteQueryAs("getTableInfo", TableInfoQuery)

getTableSchema == \E n \in TableNames : ExecuteQueryAs("getTableSchema", SchemaQuery(n))

\* Mutant of exportDatabase: without the guard of lines 77-79, a null this.db
\* makes `this.db.export()` throw a TypeError.
exportDatabaseUnguarded ==
    /\ pc = "idle"
    /\ Complete(IF db = 0 THEN Thrown("exportDatabase", <<"TypeError">>)
                ELSE Returned("exportDatabase", <<>>, {EngineExport(engines[db])}))
    /\ UNCHANGED <<SQL, db, engines, opening, queries, idx, awaited, results, calls,
                   began, life>>

\* exportDatabase, lines 76-81.
exportDatabase ==
    /\ pc = "idle"
    /\ Complete(IF db = 0 THEN Thrown("exportDatabase", NotInitialized)
                ELSE Returned("exportDatabase", <<>>, {EngineExport(engines[db])}))
    /\ UNCHANGED <<SQL, db, engines, opening, queries, idx, awaited, results, calls,
                   began, life>>

\* Mutant of close: the instance is closed and this.db keeps referencing it.
closeKeepsHandle ==
    /\ IF db # 0
       THEN engines' = [engines EXCEPT ![db] = EngineClose(engines[db])]
       ELSE UNCHANGED engines
    /\ Complete(Returned("close", <<>>, {}))
    /\ life' = "Closed"
    /\ UNCHANGED <<SQL, db, opening, queries, idx, awaited, results, calls, began>>

\* close, lines 83-88.
close ==
    /\ IF db # 0
       THEN engines' = [engines EXCEPT ![db] = EngineClose(engines[db])] /\ db' = 0
       ELSE UNCHANGED <<engines, db>>
    /\ Complete(Returned("close", <<>>, {}))
    /\ life' = "Closed"
    /\ UNCHANGED <<SQL, opening, queries, idx, awaited, results, calls, began>>

\* ------------------------------------------------- executeMultipleQueries
\* The arrays callers pass.
Batches == UNION { [1..n -> Texts] : n \in 0..MaxBatch }

\* Mutant of NextStatement: the test of line 103 on the statement as given.
RECURSIVE NextStatementUntrimmed(_, _)
NextStatementUntrimmed(qs, i) ==
    IF i > Len(qs) \/ qs[i] # <<>> THEN i ELSE NextStatementUntrimmed(qs, i + 1)

\* The loop of lines 101-103: the first position from i on whose statement
\* is not empty after trim, or Len(qs) + 1.
RECURSIVE NextStatement(_, _)
NextStatement(qs, i) ==
    IF i > Len(qs) \/ trim(qs[i]) # <<>> THEN i ELSE NextStatement(qs, i + 1)

\* Mutant of AfterOutcome: a failure ends the loop.
AfterOutcomeAbort(qs, i, x) ==
    IF x.thrown THEN Len(qs) + 1 ELSE NextStatement(qs, i + 1)

\* The position the loop goes on with after the outcome x of the statement
\* at i: the catch of lines 107-112 swallows a failure, so the next statement.
AfterOutcome(qs, i, x) == NextStatement(qs, i + 1)

\* The entry pushed for an executeQuery outcome, lines 106 and 108-111.
ResultEntry(x) ==
    IF x.thrown
    THEN QueryResult(<<"Error">>, << <<x.msg>> >>, {})
    ELSE x.value[1]

\* The call: runs to the first `await this.executeQuery(trimmedQuery)`, or
\* to the return when no statement is left after trimming.
executeMultipleQueries(qs) ==
    /\ pc = "idle"
    /\ \E j \in {NextStatement(qs, 1)} :
         /\ queries' = qs
         /\ idx' = j
         /\ results' = <<>>
         /\ began' = life
         /\ IF j > Len(qs)
            THEN /\ pc' = "done"
                 /\ ret' = Returned("executeMultipleQueries", <<>>, {})
                 /\ awaited' = <<>>
                 /\ calls' = <<>>
                 /\ UNCHANGED engines
            ELSE /\ CanExecute
                 /\ pc' = "batch"
                 /\ ret' = NoReturn
                 /\ \E x \in {executeQuery(trim(qs[j]), PrepareError, RunError)} :
                      /\ engines' = EnginesAfter(x)
                      /\ awaited' = <<x>>
                      /\ calls' = <<x>>
    /\ UNCHANGED <<SQL, db, opening, life>>

executeMultipleQueriesCall == \E qs \in Batches : executeMultipleQueries(qs)

\* After the await: the outcome is pushed, the loop goes on to the next
\* statement and awaits its executeQuery, or the results are returned.
executeMultipleQueriesResume ==
    /\ pc = "batch"
    /\ \E pushed \in {Append(results, ResultEntry(awaited[1]))},
          j \in {AfterOutcome(queries, idx, awaited[1])} :
           /\ results' = pushed
           /\ idx' = j
           /\ IF j > Len(queries)
              THEN /\ pc' = "done"
                   /\ ret' = [Returned("executeMultipleQueries", pushed, {})
                              EXCEPT !.from = began]
                   /\ awaited' = <<>>
                   /\ UNCHANGED <<engines, calls>>
              ELSE /\ CanExecute
                   /\ \E x \in {executeQuery(trim(queries[j]), PrepareError, RunError)} :
                        /\ engines' = EnginesAfter(x)
                        /\ awaited' = <<x>>
                        /\ calls' = Append(calls, x)
                   /\ UNCHANGED <<pc, ret>>
    /\ UNCHANGED <<SQL, db, opening, queries, began, life>>


\* ------------------------------------------------------------ snapshot store
\* DatabaseStorage over its backing store (localforage).  A Date is its time
\* value in milliseconds, or invalid; a Uint8Array is tagged as such, an
\* Array is a plain sequence of numbers; an ISO string is its seconds and
\* milliseconds fields.
VARIABLES
    store,      \* this.store: per key, <<>> or the one value stored under it
    inflight,   \* the requests sent to the backing store and not yet answered
    sret,       \* what the last completed operation returned or threw
    written,    \* per key, the record of the last save applied, if it is
                \* still what the key holds (history)
    removed,    \* per key, the removals applied since the last save applied,
                \* counted up to two (history)
    listing,    \* the getAllDatabases in flight: where it is, the keys still
                \* to load, the keys as enumerated, and its `databases`
    imported    \* the file given to the last importDatabase (history)

svars == <<store, inflight, sret, written, removed, listing, imported>>

Date(ms) == [valid |-> TRUE, ms |-> ms]
InvalidDate == [valid |-> FALSE, ms |-> 0]
Uint8Array(bytes) == [type |-> "Uint8Array", bytes |-> bytes]

\* A text of the calendar fields that stops at the second.
toISOStringSeconds(d) == [secs |-> d.ms \div 1000, millis |-> 0]

\* Date.prototype.toISOString, for a valid Date: the text of its calendar
\* fields down to the millisecond.
toISOString(d) == [secs |-> d.ms \div 1000, millis |-> d.ms % 1000]

\* new Date(isoString): the Date the text denotes, an invalid Date for a
\* text that is no date (here, one whose millisecond field is out of range).
ParseDate(iso) ==
    IF iso.millis \in 0..999 THEN Date(iso.secs * 1000 + iso.millis) ELSE InvalidDate

\* Date.prototype.getTime: the time value, NaN for an invalid Date.
getTime(d) == d.ms

\* A text that is no date.
NotADate == [secs |-> 0, millis |-> 1000]

\* Array.from(uint8Array)
ArrayFrom(u) == u.bytes

\* new Uint8Array(array): each number is taken modulo 2^8.
Uint8ArrayFrom(arr) == Uint8Array([i \in 1..Len(arr) |-> arr[i] % 256])

\* What Date.now() and Math.random().toString(36).substr(2, 9) give to the
\* callers that make up an id.
Clock == {1500, 2001}
Rands == {<<"k">>}

\* `db_${Date.now()}_${Math.random().toString(36).substr(2, 9)}`
NewId(now, rand) == <<"db_", now, "_", rand>>

\* The ids of the application's records.
Ids == {NewId(now, rand) : now \in Clock, rand \in Rands}
IdA == NewId(1500, <<"k">>)
IdB == NewId(2001, <<"k">>)
NoKey == <<>>

\* The records callers save: an empty blob, a blob with the extreme bytes,
\* dates before and after the epoch, equal lastModified under two ids, and a
\* record whose date is invalid.
Records ==
    { [id |-> IdA, name |-> "n1", data |-> Uint8Array(<<>>),
       createdAt |-> Date(-1), lastModified |-> Date(1500)],
      [id |-> IdA, name |-> "n2", data |-> Uint8Array(<<0, 255>>),
       createdAt |-> Date(1500), lastModified |-> Date(2001)],
      [id |-> IdB, name |-> "n1", data |-> Uint8Array(<<255>>),
       createdAt |-> Date(0), lastModified |-> Date(1500)],
      [id |-> IdB, name |-> "n2", data |-> Uint8Array(<<1>>),
       createdAt |-> Date(0), lastModified |-> InvalidDate] }

\* The value saveDatabase hands to setItem, lines 37-43.
Serialize(database) ==
    [id |-> database.id,
     name |-> database.name,
     data |-> ArrayFrom(database.data),
     createdAt |-> toISOString(database.createdAt),
     lastModified |-> toISOString(database.lastModified)]

\* toISOString throws a RangeError on an invalid Date.
CanSerialize(database) == database.createdAt.valid /\ database.lastModified.valid

\* The record loadDatabase builds from a stored value, lines 54-60.
Deserialize(stored) ==
    [id |-> stored.id,
     name |-> stored.name,
     data |-> Uint8ArrayFrom(stored.data),
     createdAt |-> ParseDate(stored.createdAt),
     lastModified |-> ParseDate(stored.lastModified)]

\* What loadDatabase returns for what getItem gave: null for nothing stored,
\* else the record rebuilt from the stored value, lines 52-60.
LoadResult(stored) ==
    IF stored = <<>> THEN <<>> ELSE <<Deserialize(stored[1])>>

\* A value under key k that saveDatabase did not write (another version of
\* the application, or a damaged entry): its date texts are no dates.
Garbled(k) ==
    [id |-> k, name |-> "n1", data |-> <<1>>,
     createdAt |-> NotADate, lastModified |-> NotADate]

SReturned(op, key, rec) ==
    [op |-> op, key |-> key, thrown |-> FALSE, msg |-> <<>>, record |-> rec,
     served |-> TRUE]

SThrown(op, key, msg) ==
    [op |-> op, key |-> key, thrown |-> TRUE, msg |-> msg, record |-> <<>>,
     served |-> FALSE]

NoSReturn == [SReturned("none", NoKey, <<>>) EXCEPT !.served = FALSE]

NotListing == [pc |-> "idle", keys |-> <<>>, enum |-> <<>>, databases |-> <<>>]

StoreInit ==
    /\ store = [k \in Ids |-> <<>>]
    /\ inflight = <<>>
    /\ sret = NoSReturn
    /\ written = [k \in Ids |-> <<>>]
    /\ removed = [k \in Ids |-> 0]
    /\ listing = NotListing
    /\ imported = <<>>

Request(op, key, value, rec) == [op |-> op, key |-> key, value |-> value, rec |-> rec]

\* inflight without its i-th request.
Answered(i) == SubSeq(inflight, 1, i - 1) \o SubSeq(inflight, i + 1, Len(inflight))

\* saveDatabase up to `await this.store.setItem(...)`, lines 35-43; a
\* record that cannot be serialized fails at once, lines 44-46.
saveDatabaseCall(database) ==
    /\ Len(inflight) < MaxInFlight
    /\ IF CanSerialize(database)
       THEN /\ inflight' = Append(inflight,
                 Request("setItem", database.id, <<Serialize(database)>>, <<database>>))
            /\ UNCHANGED sret
       ELSE /\ sret' = SThrown("saveDatabase", database.id,
                 <<"Failed to save database: ", "Invalid time value">>)
            /\ UNCHANGED inflight
    /\ UNCHANGED <<store, written, removed, listing, imported>>

\* loadDatabase up to `await this.store.getItem(id)`, lines 49-51.
loadDatabaseCall(id) ==
    /\ Len(inflight) < MaxInFlight
    /\ inflight' = Append(inflight, Request("getItem", id, <<>>, <<>>))
    /\ UNCHANGED <<store, sret, written, removed, listing, imported>>

\* deleteDatabase up to `await this.store.removeItem(id)`, lines 86-88.
deleteDatabaseCall(id) ==
    /\ Len(inflight) < MaxInFlight
    /\ inflight' = Append(inflight, Request("removeItem", id, <<>>, <<>>))
    /\ UNCHANGED <<store, sret, written, removed, listing, imported>>

\* clearAllDatabases up to `await this.store.clear()`, lines 139-141.
clearAllDatabasesCall ==
    /\ Len(inflight) < MaxInFlight
    /\ inflight' = Append(inflight, Request("clear", NoKey, <<>>, <<>>))
    /\ UNCHANGED <<store, sret, written, removed, listing, imported>>

\* The backing store applies a clear and clearAllDatabases returns.
ClearDone(i) ==
    /\ inflight[i].op = "clear"
    /\ store' = [k \in Ids |-> <<>>]
    /\ written' = [k \in Ids |-> <<>>]
    /\ removed' = [k \in Ids |-> IF removed[k] = 0 THEN 1 ELSE removed[k]]
    /\ sret' = SReturned("clearAllDatabases", NoKey, <<>>)
    /\ inflight' = Answered(i)
    /\ UNCHANGED <<listing, imported>>

\* A setItem with a version check: a value whose lastModified is older than
\* the stored one's does not replace it.
SetItemDoneIfNewer(i) ==
    /\ inflight[i].op = "setItem"
    /\ store' =
         IF /\ store[inflight[i].key] # <<>>
            /\ getTime(ParseDate(store[inflight[i].key][1].lastModified)) >
                 getTime(ParseDate(inflight[i].value[1].lastModified))
         THEN store
         ELSE [store EXCEPT ![inflight[i].key] = inflight[i].value]
    /\ written' = [written EXCEPT ![inflight[i].key] = inflight[i].rec]
    /\ removed' = [removed EXCEPT ![inflight[i].key] = 0]
    /\ sret' = SReturned("saveDatabase", inflight[i].key, <<>>)
    /\ inflight' = Answered(i)
    /\ UNCHANGED <<listing, imported>>

\* The backing store applies a setItem and saveDatabase returns.
SetItemDone(i) ==
    /\ inflight[i].op = "setItem"
    /\ store' = [store EXCEPT ![inflight[i].key] = inflight[i].value]
    /\ written' = [written EXCEPT ![inflight[i].key] = inflight[i].rec]
    /\ removed' = [removed EXCEPT ![inflight[i].key] = 0]
    /\ UNCHANGED <<listing, imported>>
    /\ sret' = SReturned("saveDatabase", inflight[i].key, <<>>)
    /\ inflight' = Answered(i)

\* The backing store answers a getItem and loadDatabase returns null or the
\* record rebuilt from the stored value, lines 52-60.
GetItemDone(i) ==
    /\ inflight[i].op = "getItem"
    /\ sret' = SReturned("loadDatabase", inflight[i].key,
                         LoadResult(store[inflight[i].key]))
    /\ inflight' = Answered(i)
    /\ UNCHANGED <<store, written, removed, listing, imported>>

\* A removal that fails when nothing is stored under the key.
RemoveItemDoneIfPresent(i) ==
    /\ inflight[i].op = "removeItem"
    /\ IF store[inflight[i].key] = <<>>
       THEN /\ sret' = SThrown("deleteDatabase", inflight[i].key,
                               <<"Failed to delete database: ", "not found">>)
            /\ UNCHANGED <<store, written, removed>>
       ELSE /\ store' = [store EXCEPT ![inflight[i].key] = <<>>]
            /\ written' = [written EXCEPT ![inflight[i].key] = <<>>]
            /\ removed' = [removed EXCEPT ![inflight[i].key] = 1]
            /\ sret' = SReturned("deleteDatabase", inflight[i].key, <<>>)
    /\ inflight' = Answered(i)
    /\ UNCHANGED <<listing, imported>>

\* The backing store applies a removeItem, whether or not the key holds a
\* value, and deleteDatabase returns.
RemoveItemDone(i) ==
    /\ inflight[i].op = "removeItem"
    /\ store' = [store EXCEPT ![inflight[i].key] = <<>>]
    /\ written' = [written EXCEPT ![inflight[i].key] = <<>>]
    /\ removed' = [removed EXCEPT ![inflight[i].key] = IF @ < 2 THEN @ + 1 ELSE 2]
    /\ UNCHANGED <<listing, imported>>
    /\ sret' = SReturned("deleteDatabase", inflight[i].key, <<>>)
    /\ inflight' = Answered(i)

\* A failure of the backing store that every operation swallows as
\* loadDatabase does: the caller is handed a normal return.
RequestFailedSilently(i) ==
    /\ sret' =
         [SReturned(CASE inflight[i].op = "setItem" -> "saveDatabase"
                      [] inflight[i].op = "removeItem" -> "deleteDatabase"
                      [] inflight[i].op = "clear" -> "clearAllDatabases"
                      [] OTHER -> "loadDatabase",
                    inflight[i].key, <<>>) EXCEPT !.served = FALSE]
    /\ inflight' = Answered(i)
    /\ UNCHANGED <<store, written, removed, listing, imported>>

\* The backing store rejects a request and changes nothing: saveDatabase,
\* deleteDatabase and clearAllDatabases throw (lines 44-46, 89-91, 142-144),
\* loadDatabase returns null (lines 61-64).
RequestFailed(i) ==
    /\ sret' =
         CASE inflight[i].op = "setItem" ->
                SThrown("saveDatabase", inflight[i].key,
                        <<"Failed to save database: ", "store failed">>)
           [] inflight[i].op = "removeItem" ->
                SThrown("deleteDatabase", inflight[i].key,
                        <<"Failed to delete database: ", "store failed">>)
           [] inflight[i].op = "clear" ->
                SThrown("clearAllDatabases", inflight[i].key,
                        <<"Failed to clear databases: ", "store failed">>)
           [] OTHER ->
                [SReturned("loadDatabase", inflight[i].key, <<>>) EXCEPT !.served = FALSE]
    /\ inflight' = Answered(i)
    /\ UNCHANGED <<store, written, removed, listing, imported>>

\* Something other than saveDatabase leaves a value under key k.
ForeignWrite(k) ==
    /\ store' = [store EXCEPT ![k] = <<Garbled(k)>>]
    /\ written' = [written EXCEPT ![k] = <<>>]
    /\ removed' = [removed EXCEPT ![k] = 0]
    /\ UNCHANGED <<inflight, sret, listing, imported>>

\* The files given to importDatabase: a name with one extension, a name that
\* is only an extension, a name with two, a name that ends in a dot, and a
\* name with none; the content is empty or holds the extreme bytes.
Files ==
    { [name |-> <<"m", ".", "s">>, bytes |-> <<0, 255>>],
      [name |-> <<".", "s">>, bytes |-> <<>>],
      [name |-> <<"m", ".", "t", ".", "g">>, bytes |-> <<255>>],
      [name |-> <<"m", ".">>, bytes |-> <<1>>],
      [name |-> <<"m">>, bytes |-> <<>>] }

\* file.name.replace(/\.[^/.]+$/, ''): without its last dot and what follows
\* it, when that is one character or more, none of them a slash.
StripExtension(name) ==
    Let({i \in 1..Len(name) : name[i] = "."}, LAMBDA dots :
        IF dots = {} THEN name
        ELSE IF /\ Greatest(dots) < Len(name)
                /\ \A j \in (Greatest(dots) + 1)..Len(name) : name[j] # "/"
             THEN SubSeq(name, 1, Greatest(dots) - 1)
             ELSE name)

\* `Imported Database ${Date.now()}`
Placeholder(now) == <<"Imported Database ", now>>

\* The name importDatabase gives the record, line 115.
ImportedName(file, now) ==
    IF StripExtension(file.name) = <<>> THEN Placeholder(now)
    ELSE StripExtension(file.name)

\* The record importDatabase resolves to, lines 113-123, when the clock
\* reads `now` throughout.
ImportedRecord(file, now, rand) ==
    [id |-> NewId(now, rand),
     name |-> ImportedName(file, now),
     data |-> Uint8Array(file.bytes),
     createdAt |-> Date(now),
     lastModified |-> Date(now)]

\* importDatabase: the reader has loaded the file, lines 110-125.
importDatabase(file) ==
    /\ \E now \in Clock, rand \in Rands :
         sret' = SReturned("importDatabase", NewId(now, rand),
                           <<ImportedRecord(file, now, rand)>>)
    /\ imported' = <<file>>
    /\ UNCHANGED <<store, inflight, written, removed, listing>>

\* importDatabase: the reader fails, lines 131-133.
importDatabaseFailed(file) ==
    /\ sret' = SThrown("importDatabase", NoKey, <<"Failed to read file">>)
    /\ imported' = <<file>>
    /\ UNCHANGED <<store, inflight, written, removed, listing>>

\* The home page saves the record an import gave it (part_001, lines
\* 107-108).
saveImported ==
    /\ sret.op = "importDatabase" /\ ~sret.thrown
    /\ saveDatabaseCall(sret.record[1])

\* The comparator that sorts the other way.
ByLastModifiedAsc(a, b) == getTime(a.lastModified) - getTime(b.lastModified)

\* (a, b) => b.lastModified.getTime() - a.lastModified.getTime(), line 79.
ByLastModifiedDesc(a, b) == getTime(b.lastModified) - getTime(a.lastModified)

\* The sequences that enumerate the set S, each element once.
Orders(S) ==
    {f \in [1..Cardinality(S) -> S] : \A i, j \in 1..Cardinality(S) : i # j => f[i] # f[j]}

\* The elements Array.prototype.sort puts before s[i]: those the comparator
\* orders first, and of those it holds equal the ones that came first (the
\* sort is stable).
Before(s, i) ==
    {j \in 1..Len(s) :
        \/ ByLastModifiedDesc(s[j], s[i]) < 0
        \/ ByLastModifiedDesc(s[j], s[i]) = 0 /\ j < i}

\* databases.sort(comparator), line 79: the arrays it can give.  With an
\* invalid Date the comparator yields NaN and is not consistent, and the
\* order is then whatever the implementation makes of it.
sort(s) ==
    IF \A i \in 1..Len(s) : s[i].lastModified.valid
    THEN {[p \in 1..Len(s) |->
              s[CHOOSE i \in 1..Len(s) : Cardinality(Before(s, i)) = p - 1]]}
    ELSE {[p \in 1..Len(s) |-> s[f[p]]] : f \in Orders(1..Len(s))}

\* getAllDatabases up to `await this.store.keys()`, lines 67-70.  The
\* caller has one getAllDatabases in flight at a time.
getAllDatabasesCall ==
    /\ listing.pc = "idle"
    /\ listing' = [pc |-> "keys", keys |-> <<>>, enum |-> <<>>, databases |-> <<>>]
    /\ UNCHANGED <<store, inflight, sret, written, removed, imported>>

\* getAllDatabases returns: the sorted array, line 79.
ListReturn(enum, databases) ==
    /\ \E sorted \in sort(databases) :
         sret' = SReturned("getAllDatabases", NoKey, sorted)
    /\ listing' = [pc |-> "idle", keys |-> <<>>, enum |-> enum, databases |-> databases]

\* The backing store enumerates its keys, in some order.
KeysDone ==
    /\ listing.pc = "keys"
    /\ \E enum \in Orders({k \in Ids : store[k] # <<>>}) :
         IF enum = <<>>
         THEN ListReturn(enum, <<>>)
         ELSE /\ listing' = [pc |-> "load", keys |-> enum, enum |-> enum,
                             databases |-> <<>>]
              /\ UNCHANGED sret
    /\ UNCHANGED <<store, inflight, written, removed, imported>>

\* The backing store fails to enumerate: getAllDatabases returns [],
\* lines 80-83.
KeysFailed ==
    /\ listing.pc = "keys"
    /\ sret' = [SReturned("getAllDatabases", NoKey, <<>>) EXCEPT !.served = FALSE]
    /\ listing' = NotListing
    /\ UNCHANGED <<store, inflight, written, removed, imported>>

\* One turn of the loop of lines 72-77, where loaded is what loadDatabase
\* returned for the key: pushed unless null; after the last key, the return.
ListPush(loaded) ==
    /\ listing.pc = "load"
    /\ IF Len(listing.keys) = 1
       THEN ListReturn(listing.enum, listing.databases \o loaded)
       ELSE /\ listing' = [listing EXCEPT !.keys = Tail(@),
                                          !.databases = @ \o loaded]
            /\ UNCHANGED sret
    /\ UNCHANGED <<store, inflight, written, removed, imported>>

\* loadDatabase(key) answered by the backing store.
ListLoadDone == listing.pc = "load" /\ ListPush(LoadResult(store[Head(listing.keys)]))

\* loadDatabase(key) whose getItem fails: it returns null, lines 61-64.
ListLoadFailed == ListPush(<<>>)


\* ------------------------------------------------------------------ editor
\* The editor page (storage.ts from line 150): one component, the state its
\* hooks hold and the asynchronous flows its handlers run.  The handle
\* variables above follow the handle the `database` state holds: the handle
\* initializeDatabase constructs has opened nothing until its createDatabase
\* resumes, and setDatabase puts it in the old one's place in the same turn.
VARIABLES
    route,      \* "home" before the page is opened, "editor", "left" after router.push('/')
    dbId,       \* searchParams.get('db'): NoKey or an id
    database,   \* the `database` state: 0 for null, else the instance its handle holds
    dbInfo,     \* the `dbInfo` state: <<>> for null, else <<record>>
    query,      \* the `query` state as of the last run
    shown,      \* the `results` state
    loading,    \* the `loading` state
    tables,     \* the `tables` state
    databaseId, \* the id the handle in `database` was constructed with (line 237)
    parked,     \* the initializeDatabase runs at an await: [pc, id] with pc
                \* "load" (loadDatabase) or "open" (createDatabase)
    ipc,        \* the initializeDatabase run whose continuations the current
                \* task runs: "idle", "opening", "opened", "failed", "tables",
                \* "tabled"
    epc,        \* executeQuery: "idle", "batch", "tables", "tabled", "export",
                \* "exported", "save"
    saving      \* the setItem request saveDatabase awaits: <<>> or <<request>>

evars == <<route, dbId, database, dbInfo, query, shown, loading, tables,
           databaseId, parked, ipc, epc, saving>>

EditorInit ==
    /\ route = "home"
    /\ dbId = NoKey
    /\ database = 0
    /\ databaseId = NoKey
    /\ parked = <<>>
    /\ dbInfo = <<>>
    /\ query = <<>>
    /\ shown = <<>>
    /\ loading = FALSE
    /\ tables = <<>>
    /\ ipc = "idle"
    /\ epc = "idle"
    /\ saving = <<>>

\* The texts typed into the editor: blank, one statement, and a batch
\* whose second statement fails.
Typed == { <<" ">>, <<"i">>, <<"s", ";", "x">> }

\* String.prototype.split(';'): the pieces between the separators.
split(t) ==
    LET ends == Separators(t) \cup {Len(t) + 1} IN
    [k \in 1..Cardinality(ends) |->
       LET e == CHOOSE f \in ends : Cardinality({g \in ends : g <= f}) = k
           before == {g \in ends : g < e}
       IN SubSeq(t, IF before = {} THEN 1 ELSE Greatest(before) + 1, e - 1)]

NonBlank(q) == trim(q) # <<>>

\* query.split(';').filter(q => q.trim()), line 271.
SplitQueries(t) == SelectSeq(split(t), NonBlank)

\* What the engine makes of a record's bytes: no bytes are a new database,
\* an exported snapshot is that database, anything else is rejected.
OpenData(data) ==
    IF data.bytes = <<>> THEN Snapshot(0)
    ELSE IF Len(data.bytes) = 1 /\ data.bytes[1] <= MaxRows THEN Snapshot(data.bytes[1])
    ELSE CorruptData

\* The bytes of an exported snapshot.
ExportedData(n) == Uint8Array(<<n>>)

\* The event loop is between two tasks: no chain of continuations of the
\* synchronous engine is running.  Clicks, navigations and the backing
\* store's answers are tasks.
BetweenTasks ==
    /\ pc = "idle"
    /\ ipc = "idle"
    /\ epc \in {"idle", "save"}

\* The request is the one the run flow's saveDatabase awaits.
AwaitedSave(i) == IF saving = <<>> THEN FALSE ELSE inflight[i] = saving[1]

\* The records the home page saves: a database it created (part_001 lines
\* 48-56, no bytes) and an imported file that is not a database.
HomeRecords ==
    { [id |-> NewId(now, rand), name |-> "n1", data |-> Uint8Array(<<>>),
       createdAt |-> Date(now), lastModified |-> Date(now)] :
        now \in Clock, rand \in Rands }
    \cup {r \in Records : OpenData(r.data) = CorruptData /\ CanSerialize(r)
                           /\ r.id = IdB}

\* The home page saves a record (part_001 lines 58 and 108) before the
\* editor opens.
HomeSave(r) ==
    /\ route = "home"
    /\ saveDatabaseCall(r)
    /\ UNCHANGED evars

\* The backing store answers a save the home page made.
HomeSaveDone(i) ==
    /\ BetweenTasks
    /\ ~AwaitedSave(i)
    /\ SetItemDone(i)
    /\ UNCHANGED evars

HomeSaveFailed(i) ==
    /\ BetweenTasks
    /\ inflight[i].op = "setItem"
    /\ ~AwaitedSave(i)
    /\ RequestFailed(i)
    /\ UNCHANGED evars

\* A run of initializeDatabase at an await.
Flow(at, id) == [pc |-> at, id |-> id]

\* The runs of initializeDatabase that await loadDatabase(id), or the
\* createDatabase of the handle made for id.
ParkedAt(at, id) == {n \in 1..Len(parked) : parked[n] = Flow(at, id)}

ParkedAtLoad == {n \in 1..Len(parked) : parked[n].pc = "load"}

\* parked without its n-th run.
Unparked(n) == SubSeq(parked, 1, n - 1) \o SubSeq(parked, n + 1, Len(parked))

\* The effect of lines 216-222 when the page opens on ?db=id or the
\* parameter changes: initializeDatabase up to `await storage.loadDatabase`.
\* Nothing cancels the runs started before.  A run is started while an
\* instance is left for it to construct, and the page is opened once the
\* home page's saves are answered.
initializeDatabaseCall(id) ==
    /\ BetweenTasks
    /\ IF route = "home" THEN inflight = <<>> ELSE TRUE
    /\ Len(engines) + Len(opening) + Cardinality(ParkedAtLoad) < MaxEngines
    /\ route \in {"home", "editor"}
    /\ id # dbId
    /\ route' = "editor"
    /\ dbId' = id
    /\ loading' = TRUE
    /\ parked' = Append(parked, Flow("load", id))
    /\ loadDatabaseCall(id)
    /\ UNCHANGED <<database, databaseId, dbInfo, query, shown, tables, ipc, epc, saving>>

\* createDatabase(data) on the handle `new SQLDatabase(id, name)`, up to its
\* `await SQLDatabase.initialize()`: the call awaiting, with the handle's id.
OpenCall(id, data) ==
    [given |-> data.given, valid |-> data.valid, rows |-> data.rows, id |-> id]

\* initializeDatabase after loadDatabase returned to its n-th parked run,
\* lines 229-238: nothing found leaves the page; else setDbInfo, a new handle
\* and its createDatabase up to its await.  With the library loaded,
\* initialize() awaits nothing and createDatabase goes on within the task;
\* otherwise the run waits for its own initSqlJs.
initializeDatabaseAfterLoad(n) ==
    IF sret'.record = <<>>
    THEN /\ route' = "left"
         /\ loading' = FALSE
         /\ parked' = Unparked(n)
         /\ UNCHANGED <<dbInfo, ipc>>
         /\ UNCHANGED vars
    ELSE /\ dbInfo' = sret'.record
         /\ pc = "idle"
         /\ Len(engines) + Len(opening) < MaxEngines
         /\ opening' = Append(opening, OpenCall(sret'.record[1].id,
                                               OpenData(sret'.record[1].data)))
         /\ IF SQL
            THEN parked' = Unparked(n) /\ ipc' = "opening"
            ELSE /\ parked' = [parked EXCEPT ![n] = Flow("open", sret'.record[1].id)]
                 /\ UNCHANGED ipc
         /\ UNCHANGED <<SQL, db, engines, pc, queries, idx, awaited, results, ret,
                        calls, began, life>>
         /\ UNCHANGED <<route, loading>>

initializeDatabaseLoaded(i) ==
    /\ BetweenTasks
    /\ inflight[i].op = "getItem"
    /\ ParkedAt("load", inflight[i].key) # {}
    /\ GetItemDone(i)
    /\ initializeDatabaseAfterLoad(Least(ParkedAt("load", inflight[i].key)))
    /\ UNCHANGED <<dbId, database, databaseId, query, shown, tables, epc, saving>>

initializeDatabaseLoadFailed(i) ==
    /\ BetweenTasks
    /\ inflight[i].op = "getItem"
    /\ ParkedAt("load", inflight[i].key) # {}
    /\ RequestFailed(i)
    /\ initializeDatabaseAfterLoad(Least(ParkedAt("load", inflight[i].key)))
    /\ UNCHANGED <<dbId, database, databaseId, query, shown, tables, epc, saving>>

\* The createDatabase call the run resumes: the one just made when the task
\* is running it, else that of a parked run.
Resumable(k) ==
    IF ipc = "opening" THEN k = Len(opening)
    ELSE BetweenTasks /\ ParkedAt("open", opening[k].id) # {}

AfterResume(k) ==
    IF ipc = "opening" THEN parked
    ELSE Unparked(Least(ParkedAt("open", opening[k].id)))

\* The createDatabase of a run resumed and returned: setDatabase(db),
\* line 239.
initializeDatabaseOpened(k) ==
    /\ Resumable(k)
    /\ createDatabaseResumeAt(k)
    /\ database' = db'
    /\ databaseId' = opening[k].id
    /\ parked' = AfterResume(k)
    /\ ipc' = "opened"
    /\ UNCHANGED <<route, dbId, dbInfo, query, shown, loading, tables, epc, saving>>

\* The createDatabase of a run threw.
initializeDatabaseOpenFailed(k) ==
    /\ Resumable(k)
    /\ createDatabaseFailAt(k)
    /\ parked' = AfterResume(k)
    /\ ipc' = "failed"
    /\ UNCHANGED <<route, dbId, database, databaseId, dbInfo, query, shown, loading,
                   tables, epc, saving>>

\* The catch and finally of lines 243-249: the page is left.
initializeDatabaseCatch ==
    /\ ipc = "failed"
    /\ Settle
    /\ route' = "left"
    /\ loading' = FALSE
    /\ ipc' = "idle"
    /\ UNCHANGED <<dbId, database, dbInfo, query, shown, tables, epc, saving>>
    /\ UNCHANGED <<databaseId, parked>>

\* initializeDatabase goes on to `await loadTables(db)`, line 241.
initializeDatabaseLoadTables ==
    /\ ipc = "opened"
    /\ Settle
    /\ ipc' = "tables"
    /\ UNCHANGED <<route, dbId, database, dbInfo, query, shown, loading, tables, epc,
                   saving>>
    /\ UNCHANGED <<databaseId, parked>>

\* loadTables up to `await db.getTableInfo()`, line 254, in either flow.
loadTablesCall ==
    /\ ipc = "tables" \/ epc = "tables"
    /\ getTableInfo
    /\ ipc' = IF ipc = "tables" THEN "tabled" ELSE ipc
    /\ epc' = IF epc = "tables" THEN "tabled" ELSE epc
    /\ UNCHANGED <<route, dbId, database, dbInfo, query, shown, loading, tables, saving>>
    /\ UNCHANGED <<databaseId, parked>>

\* tableResult.values.map(row => row[0]), line 255.
TableNamesOf(result) == [k \in 1..Len(result.values) |-> result.values[k][1]]

\* loadTables after the await, lines 255-259: setTables, or the error is
\* logged.  initializeDatabase then ends (finally, line 248); executeQuery
\* goes on to saveDatabase.
loadTablesDone ==
    /\ ipc = "tabled" \/ epc = "tabled"
    /\ pc = "done"
    /\ tables' = IF ret.thrown THEN tables ELSE TableNamesOf(ret.value[1])
    /\ Settle
    /\ ipc' = IF ipc = "tabled" THEN "idle" ELSE ipc
    /\ epc' = IF epc = "tabled" THEN "export" ELSE epc
    /\ loading' = IF ipc = "tabled" THEN FALSE ELSE loading
    /\ UNCHANGED <<route, dbId, database, dbInfo, query, shown, saving>>
    /\ UNCHANGED <<databaseId, parked>>

\* The Run button, lines 262-272: disabled while loading (line 420); the
\* handler up to the first await inside executeMultipleQueries.  One run is
\* in flight at a time.
EditorExecuteQuery(q) ==
    /\ BetweenTasks
    /\ route = "editor"
    /\ epc = "idle"
    /\ ~loading
    /\ database # 0
    /\ trim(q) # <<>>
    /\ query' = q
    /\ loading' = TRUE
    /\ executeMultipleQueries(SplitQueries(q))
    /\ epc' = "batch"
    /\ UNCHANGED <<route, dbId, database, dbInfo, shown, tables, ipc, saving>>
    /\ UNCHANGED <<databaseId, parked>>

\* executeMultipleQueries returned, lines 273-280: setResults, then
\* `await loadTables(database)`.
EditorBatchReturned ==
    /\ epc = "batch"
    /\ pc = "done"
    /\ shown' = ret.value
    /\ Settle
    /\ epc' = "tables"
    /\ UNCHANGED <<route, dbId, database, dbInfo, query, loading, tables, ipc, saving>>
    /\ UNCHANGED <<databaseId, parked>>

\* A save started from any state of the page, as a Save button would (the
\* one of line 386 is commented out).
saveDatabaseExportAnyTime ==
    /\ epc \in {"batch", "export"}
    /\ database # 0 /\ dbInfo # <<>>
    /\ Complete(Returned("exportDatabase", <<>>, {EngineExport(engines[db])}))
    /\ UNCHANGED <<SQL, db, engines, opening, queries, idx, awaited, results, calls,
                   began, life>>
    /\ epc' = IF epc = "batch" THEN "batch" ELSE "exported"
    /\ UNCHANGED <<route, dbId, database, dbInfo, query, shown, loading, tables, ipc,
                   saving>>
    /\ UNCHANGED <<databaseId, parked>>

\* saveDatabase called at line 281, lines 299-303: database.exportDatabase().
saveDatabaseExport ==
    /\ epc = "export"
    /\ database # 0 /\ dbInfo # <<>>
    /\ exportDatabase
    /\ epc' = "exported"
    /\ UNCHANGED <<route, dbId, database, dbInfo, query, shown, loading, tables, ipc,
                   saving>>
    /\ UNCHANGED <<databaseId, parked>>

\* { ...dbInfo, data: exportedData, lastModified: new Date() }, lines 304-308.
UpdatedDb(info, bytes, now) ==
    [info EXCEPT !.data = ExportedData(CHOOSE n \in bytes : TRUE),
                 !.lastModified = Date(now)]

\* saveDatabase, lines 304-310, up to `await storage.saveDatabase(updatedDb)`;
\* an export or a serialization that threw ends the run (lines 312-315, 295).
saveDatabaseStore ==
    /\ epc = "exported"
    /\ Settle
    /\ IF ret.thrown
       THEN /\ epc' = "idle"
            /\ loading' = FALSE
            /\ UNCHANGED saving
            /\ UNCHANGED svars
       ELSE \E now \in Clock :
            \E u \in {UpdatedDb(dbInfo[1], ret.bytes, now)} :
              /\ saveDatabaseCall(u)
              /\ IF CanSerialize(u)
                 THEN /\ epc' = "save"
                      /\ saving' = <<Request("setItem", u.id, <<Serialize(u)>>, <<u>>)>>
                      /\ UNCHANGED loading
                 ELSE /\ epc' = "idle"
                      /\ loading' = FALSE
                      /\ UNCHANGED saving
    /\ UNCHANGED <<route, dbId, database, dbInfo, query, shown, tables, ipc>>
    /\ UNCHANGED <<databaseId, parked>>

\* storage.saveDatabase returned, lines 311 and 295: setDbInfo(updatedDb).
saveDatabaseDone(i) ==
    /\ BetweenTasks
    /\ epc = "save"
    /\ AwaitedSave(i)
    /\ SetItemDone(i)
    /\ dbInfo' = saving[1].rec
    /\ loading' = FALSE
    /\ epc' = "idle"
    /\ saving' = <<>>
    /\ UNCHANGED <<route, dbId, database, query, shown, tables, ipc>>
    /\ UNCHANGED <<databaseId, parked>>

\* storage.saveDatabase threw, lines 312-315 and 295: dbInfo keeps its value.
saveDatabaseFailed(i) ==
    /\ BetweenTasks
    /\ epc = "save"
    /\ AwaitedSave(i)
    /\ RequestFailed(i)
    /\ loading' = FALSE
    /\ epc' = "idle"
    /\ saving' = <<>>
    /\ UNCHANGED <<route, dbId, database, dbInfo, query, shown, tables, ipc>>
    /\ UNCHANGED <<databaseId, parked>>

\* The back button, line 373: the page is left.  Nothing closes the handle.
EditorLeave ==
    /\ BetweenTasks
    /\ route = "editor"
    /\ route' = "left"
    /\ UNCHANGED <<dbId, database, dbInfo, query, shown, loading, tables, ipc, epc,
                   saving>>
    /\ UNCHANGED <<databaseId, parked>>


\* --------------------------------------------------------- specifications
allvars == <<vars, svars, evars>>

\* A fresh handle and an empty store.
Init == SQLDatabaseInit /\ StoreInit /\ EditorInit

\* The binding: one handle and the operations called on it.
Next ==
    \/ (\E d \in DataArgs : createDatabaseCall(d)) /\ UNCHANGED <<svars, evars>>
    \/ createDatabaseResume /\ UNCHANGED <<svars, evars>>
    \/ createDatabaseFail /\ UNCHANGED <<svars, evars>>
    \/ executeQueryCall /\ UNCHANGED <<svars, evars>>
    \/ getTableInfo /\ UNCHANGED <<svars, evars>>
    \/ getTableSchema /\ UNCHANGED <<svars, evars>>
    \/ exportDatabase /\ UNCHANGED <<svars, evars>>
    \/ close /\ UNCHANGED <<svars, evars>>
    \/ executeMultipleQueriesCall /\ UNCHANGED <<svars, evars>>
    \/ executeMultipleQueriesResume /\ UNCHANGED <<svars, evars>>
    \/ Settle /\ UNCHANGED <<svars, evars>>

Spec == Init /\ [][Next]_allvars

\* The snapshot store: the operations called on it and the backing store's
\* answers.
SNext ==
    \/ (\E r \in Records : saveDatabaseCall(r)) /\ UNCHANGED <<vars, evars>>
    \/ (\E k \in Ids : loadDatabaseCall(k)) /\ UNCHANGED <<vars, evars>>
    \/ (\E k \in Ids : deleteDatabaseCall(k)) /\ UNCHANGED <<vars, evars>>
    \/ (\E i \in 1..Len(inflight) : SetItemDone(i)) /\ UNCHANGED <<vars, evars>>
    \/ (\E i \in 1..Len(inflight) : GetItemDone(i)) /\ UNCHANGED <<vars, evars>>
    \/ (\E i \in 1..Len(inflight) : RemoveItemDone(i)) /\ UNCHANGED <<vars, evars>>
    \/ (\E i \in 1..Len(inflight) : RequestFailed(i)) /\ UNCHANGED <<vars, evars>>
    \/ clearAllDatabasesCall /\ UNCHANGED <<vars, evars>>
    \/ (\E i \in 1..Len(inflight) : ClearDone(i)) /\ UNCHANGED <<vars, evars>>

SpecStore == Init /\ [][SNext]_allvars

\* The snapshot store listed while records are saved and deleted.
LNext ==
    \/ (\E r \in Records : saveDatabaseCall(r)) /\ UNCHANGED <<vars, evars>>
    \/ (\E k \in Ids : deleteDatabaseCall(k)) /\ UNCHANGED <<vars, evars>>
    \/ (\E i \in 1..Len(inflight) : SetItemDone(i)) /\ UNCHANGED <<vars, evars>>
    \/ (\E i \in 1..Len(inflight) : RemoveItemDone(i)) /\ UNCHANGED <<vars, evars>>
    \/ (\E i \in 1..Len(inflight) : RequestFailed(i)) /\ UNCHANGED <<vars, evars>>
    \/ getAllDatabasesCall /\ UNCHANGED <<vars, evars>>
    \/ KeysDone /\ UNCHANGED <<vars, evars>>
    \/ KeysFailed /\ UNCHANGED <<vars, evars>>
    \/ ListLoadDone /\ UNCHANGED <<vars, evars>>
    \/ ListLoadFailed /\ UNCHANGED <<vars, evars>>

SpecList == Init /\ [][LNext]_allvars

\* The snapshot store read and listed when it also holds values that
\* saveDatabase did not write.
FNext ==
    \/ (\E k \in Ids : ForeignWrite(k)) /\ UNCHANGED <<vars, evars>>
    \/ (\E r \in Records : saveDatabaseCall(r)) /\ UNCHANGED <<vars, evars>>
    \/ (\E k \in Ids : loadDatabaseCall(k)) /\ UNCHANGED <<vars, evars>>
    \/ (\E i \in 1..Len(inflight) : SetItemDone(i)) /\ UNCHANGED <<vars, evars>>
    \/ (\E i \in 1..Len(inflight) : GetItemDone(i)) /\ UNCHANGED <<vars, evars>>
    \/ (\E i \in 1..Len(inflight) : RequestFailed(i)) /\ UNCHANGED <<vars, evars>>
    \/ getAllDatabasesCall /\ UNCHANGED <<vars, evars>>
    \/ KeysDone /\ UNCHANGED <<vars, evars>>
    \/ KeysFailed /\ UNCHANGED <<vars, evars>>
    \/ ListLoadDone /\ UNCHANGED <<vars, evars>>
    \/ ListLoadFailed /\ UNCHANGED <<vars, evars>>

SpecLenient == Init /\ [][FNext]_allvars

\* Files imported, and the imported records saved and loaded.
INext ==
    \/ (\E f \in Files : importDatabase(f)) /\ UNCHANGED <<vars, evars>>
    \/ (\E f \in Files : importDatabaseFailed(f)) /\ UNCHANGED <<vars, evars>>
    \/ saveImported /\ UNCHANGED <<vars, evars>>
    \/ (\E k \in Ids : loadDatabaseCall(k)) /\ UNCHANGED <<vars, evars>>
    \/ (\E i \in 1..Len(inflight) : SetItemDone(i)) /\ UNCHANGED <<vars, evars>>
    \/ (\E i \in 1..Len(inflight) : GetItemDone(i)) /\ UNCHANGED <<vars, evars>>
    \/ (\E i \in 1..Len(inflight) : RequestFailed(i)) /\ UNCHANGED <<vars, evars>>

SpecImport == Init /\ [][INext]_allvars

\* The editor page: a home page that saved records, then one session of the
\* editor.
ENext ==
    \/ (\E r \in HomeRecords : HomeSave(r)) /\ UNCHANGED vars
    \/ (\E i \in 1..Len(inflight) : HomeSaveDone(i)) /\ UNCHANGED vars
    \/ (\E i \in 1..Len(inflight) : HomeSaveFailed(i)) /\ UNCHANGED vars
    \/ (\E k \in Ids : initializeDatabaseCall(k)) /\ UNCHANGED vars
    \/ (\E i \in 1..Len(inflight) : initializeDatabaseLoaded(i))
    \/ (\E i \in 1..Len(inflight) : initializeDatabaseLoadFailed(i))
    \/ (\E k \in 1..Len(opening) : initializeDatabaseOpened(k)) /\ UNCHANGED svars
    \/ (\E k \in 1..Len(opening) : initializeDatabaseOpenFailed(k)) /\ UNCHANGED svars
    \/ initializeDatabaseCatch /\ UNCHANGED svars
    \/ initializeDatabaseLoadTables /\ UNCHANGED svars
    \/ loadTablesCall /\ UNCHANGED svars
    \/ loadTablesDone /\ UNCHANGED svars
    \/ (\E q \in Typed : EditorExecuteQuery(q)) /\ UNCHANGED svars
    \/ executeMultipleQueriesResume /\ UNCHANGED <<svars, evars>>
    \/ EditorBatchReturned /\ UNCHANGED svars
    \/ saveDatabaseExport /\ UNCHANGED svars
    \/ saveDatabaseStore
    \/ (\E i \in 1..Len(inflight) : saveDatabaseDone(i)) /\ UNCHANGED vars
    \/ (\E i \in 1..Len(inflight) : saveDatabaseFailed(i)) /\ UNCHANGED vars
    \/ EditorLeave /\ UNCHANGED <<vars, svars>>

SpecEditor == Init /\ [][ENext]_allvars

\* ------------------------------------------------------------------ claims
BatchDone == pc = "done" /\ ret.op = "executeMultipleQueries"

\* The statements of an array that are not empty after trimming, in order.
NonEmpty(qs) == SelectSeq(qs, LAMBDA q : trim(q) # <<>>)

ErrorEntry(msg) ==
    [columns |-> <<"Error">>, values |-> << <<msg>> >>, rowsAffected |-> {}]

\* C1: executeMultipleQueries returns one result per statement that is not
\* empty after trimming, in input order: the k-th result is the outcome of
\* executeQuery on the k-th such statement, its value or its error entry.
C1_OneResultPerStatement ==
    BatchDone =>
        LET ne == NonEmpty(queries) IN
        /\ ~ret.thrown
        /\ Len(ret.value) = Len(ne)
        /\ Len(calls) = Len(ne)
        /\ \A k \in 1..Len(ne) :
             /\ calls[k].q = trim(ne[k])
             /\ ret.value[k] =
                  IF calls[k].thrown THEN ErrorEntry(calls[k].msg)
                  ELSE calls[k].value[1]

\* A batch whose first element is blank and skipped, and whose second
\* element got the only result.
C1_Witness ==
    /\ BatchDone
    /\ Len(queries) = 2
    /\ queries[1] # <<>> /\ trim(queries[1]) = <<>>
    /\ Len(ret.value) = 1

\* C2: a statement of a batch that fails does not end the batch: its entry
\* has the column "Error" and one cell with the error's message, and every
\* later non-empty statement is still passed to executeQuery, reaches the
\* engine unless the handle has no instance by then, and has its own result.
C2_FailureIsolated ==
    BatchDone =>
        LET ne == NonEmpty(queries) IN
        \A k \in 1..Len(calls) :
            calls[k].thrown =>
                /\ k <= Len(ret.value)
                /\ ret.value[k] = ErrorEntry(calls[k].msg)
                /\ \A j \in (k + 1)..Len(ne) :
                     /\ j <= Len(calls) /\ j <= Len(ret.value)
                     /\ calls[j].q = trim(ne[j])
                     /\ calls[j].submitted \/ calls[j].msg = NotInitialized

\* The engine failed the first statement of a batch and ran the second.
C2_Witness ==
    /\ BatchDone
    /\ Len(calls) = 2
    /\ calls[1].submitted /\ calls[1].thrown
    /\ calls[2].submitted /\ ~calls[2].thrown

\* A statement that yields no rows: anything but the row-producing classes.
NonRowReturning(q) == StmtClass(FirstStmt(q)) \notin {"s", "m", "p"}

\* C3 (as claimed): every statement the engine accepts yields rowsAffected
\* exactly when it is non-row-returning: then the columns are ["Result"], the
\* single row is the success marker and rowsAffected is the engine's count;
\* a row-producing statement yields the engine's columns and rows and no
\* rowsAffected.
C3_RowsAffectedIffNonRowReturning ==
    \A k \in 1..Len(calls) :
        LET c == calls[k] IN
        (c.submitted /\ ~c.thrown) =>
            IF NonRowReturning(c.q)
            THEN /\ c.value[1].columns = <<"Result">>
                 /\ c.value[1].values = << <<SuccessCell>> >>
                 /\ c.value[1].rowsAffected = {c.engine.modified}
            ELSE /\ c.value[1].columns = ColumnNames(StmtClass(FirstStmt(c.q)))
                 /\ c.value[1].rowsAffected = {}

BothFailed(c) == c.submitted /\ c.first.kind # "ok" /\ c.second.kind = "error"

Executed == calls' # calls /\ calls' # <<>>

\* C5: an executeQuery on an Open handle, failed or not, leaves the handle
\* Open on the same live instance, and an executeQuery or exportDatabase that
\* finds the handle Open does not fail with "Database not initialized".
C5_FailedExecuteKeepsOpen ==
    /\ [][(Executed /\ db # 0) =>
            (db' = db /\ life' = life /\ engines'[db].live)]_vars
    /\ []((ret.op \in {"executeQuery", "exportDatabase"} /\ ret.from = "Open") =>
            ~(ret.thrown /\ ret.msg = NotInitialized))

\* An executeQuery failed on an Open handle, which is still Open.
C5_Witness ==
    /\ pc = "done" /\ ret.op = "executeQuery"
    /\ ret.thrown /\ ret.from = "Open"
    /\ life = "Open" /\ db # 0

\* C6: exportDatabase throws "Database not initialized" when the handle is
\* Unopened or Closed, and returns the engine's bytes when it is Open.
C6_ExportNeedsOpen ==
    ret.op = "exportDatabase" =>
        IF ret.from = "Open"
        THEN ~ret.thrown /\ db # 0 /\ ret.bytes = {EngineExport(engines[db])}
        ELSE ret.thrown /\ ret.msg = NotInitialized /\ ret.bytes = {}

\* exportDatabase was called after close.
C6_Witness == ret.op = "exportDatabase" /\ ret.from = "Closed" /\ ret.thrown

StatementOps ==
    {"executeQuery", "executeMultipleQueries", "exportDatabase", "getTableInfo",
     "getTableSchema"}

\* C7 (as claimed): every operation other than open and close that is called
\* on a Closed handle fails with "Database not initialized".
C7_AfterCloseAllFail ==
    (pc = "done" /\ ret.op \in StatementOps /\ ret.from = "Closed") =>
        ret.thrown /\ ret.msg = NotInitialized

\* C8 (as claimed): createDatabase on a handle that is Open does not replace
\* the live instance: this.db, once set, changes only by close.
C8_OpenNotReplaced == [][db # 0 => db' \in {0, db}]_vars

\* C9: close never fails and leaves the handle Closed; from Open it releases
\* the instance once and clears this.db, from Unopened or Closed it changes
\* nothing; no instance is released twice.
C9_CloseIdempotent ==
    /\ [](\A i \in 1..Len(engines) : engines[i].closes <= 1)
    /\ [](ret.op = "close" => ~ret.thrown /\ db = 0 /\ life = "Closed")
    /\ [][(ret'.op = "close" /\ ret' # ret) =>
            IF db # 0
            THEN /\ db' = 0
                 /\ ~engines'[db].live
                 /\ engines'[db].closes = engines[db].closes + 1
                 /\ \A i \in 1..Len(engines) : i # db => engines'[i] = engines[i]
            ELSE UNCHANGED <<db, engines>>]_vars

\* close was called on a Closed handle whose instance had been released.
C9_Witness ==
    /\ ret.op = "close" /\ ret.from = "Closed"
    /\ engines # <<>>
    /\ \A i \in 1..Len(engines) : engines[i].closes = 1

\* C10: a loadDatabase that the backing store serves returns, for a key whose
\* last applied write is the save of record r, a record with r's id and
\* name, r's data byte for byte, and r's createdAt and lastModified.
C10_SaveLoadRoundTrip ==
    (sret.op = "loadDatabase" /\ sret.served /\ written[sret.key] # <<>>) =>
        LET r == written[sret.key][1] IN
        /\ sret.record # <<>>
        /\ sret.record[1].id = r.id
        /\ sret.record[1].name = r.name
        /\ sret.record[1].data = r.data
        /\ sret.record[1].createdAt = r.createdAt
        /\ sret.record[1].lastModified = r.lastModified

\* A record whose data is zero-length and whose createdAt precedes the epoch
\* was saved and loaded.
C10_Witness ==
    /\ sret.op = "loadDatabase" /\ sret.served
    /\ written[sret.key] # <<>>
    /\ written[sret.key][1].data = Uint8Array(<<>>)
    /\ sret.record # <<>>
\* A getAllDatabases has returned the array it built.
ListDone == sret.op = "getAllDatabases" /\ sret.served /\ listing.pc = "idle"

\* The place of a key in the enumeration.
Pos(enum, id) == CHOOSE p \in 1..Len(enum) : enum[p] = id

\* C11: getAllDatabases returns the records it loaded, each once, ordered by
\* lastModified descending, and records with equal lastModified in the order
\* in which the backing store enumerated their keys.
C11_ListSortedStable ==
    ListDone =>
        /\ Len(sret.record) = Len(listing.databases)
        /\ {sret.record[i] : i \in 1..Len(sret.record)} =
             {listing.databases[i] : i \in 1..Len(listing.databases)}
        /\ \A i, j \in 1..Len(sret.record) :
             i < j =>
                /\ getTime(sret.record[i].lastModified) >=
                     getTime(sret.record[j].lastModified)
                /\ getTime(sret.record[i].lastModified) =
                     getTime(sret.record[j].lastModified) =>
                       Pos(listing.enum, sret.record[i].id) <
                       Pos(listing.enum, sret.record[j].id)

\* A list of two records with equal lastModified, the one whose key the
\* backing store enumerated first (the greater key) ahead of the other, and
\* a list whose enumeration order the sort reversed.
C11_Witness ==
    /\ ListDone
    /\ Len(sret.record) = 2
    /\ listing.enum = <<IdB, IdA>>
    /\ sret.record[1].id = IdB
    /\ getTime(sret.record[1].lastModified) = getTime(sret.record[2].lastModified)
StoreFailed(prefix) == <<prefix, "store failed">>

\* C12: deleteDatabase fails only when the backing store fails, not because
\* nothing is stored under the id; when it returns, the id holds nothing and
\* every other key holds what it held; and from a removal until the next save
\* of the id is applied, the id holds nothing and loadDatabase returns null.
C12_DeleteIdempotent ==
    /\ []((sret.op = "deleteDatabase" /\ sret.thrown) =>
             sret.msg = StoreFailed("Failed to delete database: "))
    /\ [][(Len(inflight') < Len(inflight) /\ sret'.op = "deleteDatabase"
            /\ ~sret'.thrown) =>
              store' = [store EXCEPT ![sret'.key] = <<>>]]_svars
    /\ [](\A k \in Ids : removed[k] > 0 => store[k] = <<>>)
    /\ []((sret.op = "loadDatabase" /\ sret.served /\ removed[sret.key] > 0) =>
             sret.record = <<>>)

\* An id was deleted twice in a row, the second time with nothing stored
\* under it, another id kept its record, and a load of the id returned null.
C12_Witness ==
    /\ sret.op = "loadDatabase" /\ sret.served /\ sret.record = <<>>
    /\ sret.key = IdA /\ removed[IdA] = 2
    /\ store[IdB] # <<>>
\* A record whose fields are all what a Database holds.
WellFormed(r) == r.createdAt.valid /\ r.lastModified.valid

\* C13 (as claimed): loadDatabase never fails and returns null or a
\* well-formed record, null when nothing is stored under the id or when what
\* is stored does not make a well-formed record; getAllDatabases returns
\* well-formed records only.
C13_LenientRead ==
    /\ sret.op = "loadDatabase" =>
         /\ ~sret.thrown
         /\ \A i \in 1..Len(sret.record) : WellFormed(sret.record[i])
    /\ ListDone =>
         \A i \in 1..Len(sret.record) : WellFormed(sret.record[i])
\* An importDatabase has resolved to a record.
ImportDone == sret.op = "importDatabase" /\ ~sret.thrown /\ imported # <<>>

\* The names the sample files are to get: the name without its last
\* extension (a name that ends in a dot may keep or lose the dot), the
\* placeholder when that leaves nothing.
ExpectedNames(name, id) ==
    CASE name = <<"m", ".", "s">> -> {<<"m">>}
      [] name = <<".", "s">> -> {<<"Imported Database ", id[2]>>}
      [] name = <<"m", ".", "t", ".", "g">> -> {<<"m", ".", "t">>}
      [] name = <<"m", ".">> -> {<<"m", ".">>, <<"m">>}
      [] OTHER -> {name}

\* C14 (as claimed): importDatabase changes nothing in the store and sends
\* it nothing; the record it resolves to has the file's bytes, the file's
\* name without its last extension (the placeholder when that is empty), and
\* an id under which the store holds nothing.
C14_ImportLeavesStoreUnchanged ==
    /\ [][(sret'.op = "importDatabase" /\ inflight' = inflight) =>
            store' = store]_svars
    /\ [](ImportDone =>
            /\ sret.record[1].data = Uint8Array(imported[1].bytes)
            /\ sret.record[1].name \in ExpectedNames(imported[1].name, sret.key)
            /\ sret.record[1].id = sret.key
            /\ store[sret.key] = <<>>)
WriteRequests == {"setItem", "removeItem", "clear"}

\* The store once the backing store has applied request q.
Applied(q) ==
    CASE q.op = "setItem" -> [store EXCEPT ![q.key] = q.value]
      [] q.op = "removeItem" -> [store EXCEPT ![q.key] = <<>>]
      [] OTHER -> [k \in Ids |-> <<>>]

FailureMessages ==
    {StoreFailed("Failed to save database: "), StoreFailed("Failed to delete database: "),
     StoreFailed("Failed to clear databases: ")}

\* C15: a save, delete or clear whose request the backing store answers
\* either returns normally with the request applied, or throws the store's
\* failure to its caller with every key holding what it held before; and a
\* save that fails before anything is sent leaves the store as it was.
C15_FailedWriteChangesNothing ==
    /\ [][\A i \in 1..Len(inflight) :
            (inflight' = Answered(i) /\ inflight[i].op \in WriteRequests) =>
                \/ /\ ~sret'.thrown /\ sret'.served
                   /\ store' = Applied(inflight[i])
                \/ /\ sret'.thrown /\ sret'.msg \in FailureMessages
                   /\ sret'.key = inflight[i].key
                   /\ store' = store]_svars
    /\ [][(sret'.thrown /\ inflight' = inflight) => store' = store]_svars

\* A save failed at the backing store while its id held an earlier
\* snapshot, which is still what the id holds.
C15_Witness ==
    /\ sret.op = "saveDatabase" /\ sret.thrown
    /\ sret.msg = StoreFailed("Failed to save database: ")
    /\ written[sret.key] # <<>>
    /\ store[sret.key] = <<Serialize(written[sret.key][1])>>
\* C16: no write is checked against what the id holds: each id holds the
\* effect of the write the backing store applied to it last, the value of
\* that save or nothing after a removal, whatever the order in which the
\* writes were called; and a save or a delete changes no other id.
C16_LastWriteWins ==
    /\ [](\A k \in Ids :
            store[k] = IF written[k] = <<>> THEN <<>>
                       ELSE <<Serialize(written[k][1])>>)
    /\ [][\A i \in 1..Len(inflight) :
            (inflight' = Answered(i) /\ inflight[i].op \in {"setItem", "removeItem"}) =>
                \A k \in Ids \ {inflight[i].key} : store'[k] = store[k]]_svars

\* A delete of an id has been applied while a save of that id, called
\* before the delete returned, is still on its way, and the other id holds
\* a record.
C16_Witness ==
    /\ sret.op = "deleteDatabase" /\ ~sret.thrown
    /\ store[sret.key] = <<>>
    /\ \E i \in 1..Len(inflight) :
         inflight[i].op = "setItem" /\ inflight[i].key = sret.key
    /\ \E k \in Ids \ {sret.key} : store[k] # <<>>
\* C19 (as claimed): every statement executeQuery prepares is released by
\* the time it returns or throws: no instance holds a prepared statement
\* between operations.
C19_StatementsReleased ==
    \A i \in 1..Len(engines) : engines[i].stmts = 0

\* C20 (as claimed): one executeQuery runs its statement on the engine at
\* most once: when the first attempt stepped the statement, the fallback
\* does not run it again, and the call adds at most the one row of its
\* statement.
C20_ExecutedAtMostOnce ==
    \A k \in 1..Len(calls) :
        calls[k].submitted =>
            /\ calls[k].stepped => calls[k].second = NoAttempt
            /\ calls[k].engine.rows - calls[k].rows0 <= 1

\* A step of the run flow that takes the snapshot (exportDatabase returns)
\* or hands it to the store (the save's setItem is issued).
SaveStep ==
    \/ ret'.op = "exportDatabase" /\ ret.op # "exportDatabase"
    \/ saving' # <<>> /\ saving = <<>>

\* C17: in the editor's run flow the snapshot is exported and saved only
\* after executeMultipleQueries has returned for the whole batch: no step
\* exports or starts the save while a statement of the batch is pending, and
\* when one does, every statement of the text that was run has its entry in
\* the results the batch returned.
C17_SaveAfterWholeBatch ==
    [][SaveStep => /\ pc # "batch"
                   /\ awaited = <<>>
                   /\ epc \in {"export", "exported"}
                   /\ Len(shown) = Len(SplitQueries(query))]_allvars

\* A batch of two statements whose second failed has returned its two
\* entries and its snapshot is on its way to the store.
C17_Witness ==
    /\ epc = "save"
    /\ saving # <<>>
    /\ Len(shown) = 2
    /\ shown[2].columns = <<"Error">>
    /\ saving[1].rec[1].data = ExportedData(engines[db].rows)

LiveInstances == {i \in 1..Len(engines) : engines[i].live}

\* C18: at most one engine instance is live at any time (an instance opened
\* earlier has been closed when the editor opens another), and no instance
\* is left live once the session has ended.
C18_OneLiveInstance ==
    /\ Cardinality(LiveInstances) <= 1
    /\ route = "left" => LiveInstances = {}

\* No initializeDatabase run is in flight on the open page.
InitSettled == route = "editor" /\ parked = <<>> /\ ipc = "idle"

\* C21: under overlapping initializeDatabase runs, once they have all ended
\* the record in dbInfo and the handle in database belong to the same id,
\* and a snapshot the run flow has exported is about to be saved under the
\* id of the handle it was exported from.
C21_InfoMatchesHandle ==
    /\ (InitSettled /\ dbInfo # <<>> /\ database # 0) => dbInfo[1].id = databaseId
    /\ (epc = "exported" /\ ~ret.thrown) => dbInfo[1].id = databaseId

====
